---------------------------- MODULE Spec2Model ----------------------------
(***************************************************************************)
(* A model of the job-posting extraction engine:                           *)
(*   backend/scraper.py     JobScraper.scrape_job and what it calls        *)
(*   backend/url_parser.py  SmartJobURLParser.parse_job_url and its        *)
(*                          per-site parsers                               *)
(*                                                                         *)
(* Strings that the code searches (hosts, URLs, query strings) are         *)
(* sequences of one-character strings, so that `in`, re.sub and parse_qs   *)
(* are computed on characters.  Texts read from a page are sequences of    *)
(* chunks, the chunk " " being whitespace.  A Python dict is a function    *)
(* from its keys, so that a missing key is a key outside its DOMAIN.       *)
(***************************************************************************)
EXTENDS Integers, Sequences, FiniteSets, TLC

-----------------------------------------------------------------------------
(* Bounds of the model *)

\* longest host, in tokens
MaxHostToks == 2

\* number of selectors of a selector chain that a page answers
ChainLen == 2

-----------------------------------------------------------------------------
(* Characters and strings *)

\* the characters of a string literal of the code or of an input
Chars(t) ==
  CASE t = "www."                           -> <<"w","w","w",".">>
    [] t = "linkedin"                       -> <<"l","i","n","k","e","d","i","n">>
    [] t = "indeed"                         -> <<"i","n","d","e","e","d">>
    [] t = "Indeed"                         -> <<"I","n","d","e","e","d">>
    [] t = "glassdoor"                      -> <<"g","l","a","s","s","d","o","o","r">>
    [] t = "google"                         -> <<"g","o","o","g","l","e">>
    [] t = "ziprecruiter"                   -> <<"z","i","p","r","e","c","r","u","i","t","e","r">>
    [] t = "linkedin.com"                   -> <<"l","i","n","k","e","d","i","n",".","c","o","m">>
    [] t = "indeed.com"                     -> <<"i","n","d","e","e","d",".","c","o","m">>
    [] t = "indeed.co.uk"                   -> <<"i","n","d","e","e","d",".","c","o",".","u","k">>
    [] t = "glassdoor.com"                  -> <<"g","l","a","s","s","d","o","o","r",".","c","o","m">>
    [] t = "jobs.google.com"                -> <<"j","o","b","s",".","g","o","o","g","l","e",".","c","o","m">>
    [] t = "ziprecruiter.com"               -> <<"z","i","p","r","e","c","r","u","i","t","e","r",".","c","o","m">>
    [] t = ".com"                           -> <<".","c","o","m">>
    [] t = "["                              -> <<"[">>
    [] t = "]"                              -> <<"]">>
    [] t = "https://"                       -> <<"h","t","t","p","s",":","/","/">>
    [] t = "/"                              -> <<"/">>
    [] t = "?"                              -> <<"?">>
    [] t = "&"                              -> <<"&">>
    [] t = "="                              -> <<"=">>
    [] t = "-"                              -> <<"-">>
    [] t = " "                              -> <<" ">>
    [] t = "jobs"                           -> <<"j","o","b","s">>
    [] t = "view"                           -> <<"v","i","e","w">>
    [] t = "company"                        -> <<"c","o","m","p","a","n","y">>
    [] t = "job"                            -> <<"j","o","b">>
    [] t = "viewjob"                        -> <<"v","i","e","w","j","o","b">>
    [] t = "12"                             -> <<"1","2">>
    [] t = "7"                              -> <<"7">>
    [] t = "acme-co"                        -> <<"a","c","m","e","-","c","o">>
    [] t = "qa-lead-acme-co-JV_ID7.htm"     -> <<"q","a","-","l","e","a","d","-","a","c","m","e","-","c","o","-","J","V","_","I","D","7",".","h","t","m">>
    [] t = "/jobs/view/"                    -> <<"/","j","o","b","s","/","v","i","e","w","/">>
    [] t = "linkedin.com/company/"          -> <<"l","i","n","k","e","d","i","n",".","c","o","m","/","c","o","m","p","a","n","y","/">>
    [] t = "JV_ID"                          -> <<"J","V","_","I","D">>
    [] t = ".htm"                           -> <<".","h","t","m">>
    [] t = "jk"                             -> <<"j","k">>
    [] t = "vjk"                            -> <<"v","j","k">>
    [] t = "q"                              -> <<"q">>
    [] t = "seq"                            -> <<"s","e","q">>
    [] t = "l"                              -> <<"l">>
    [] t = "location"                       -> <<"l","o","c","a","t","i","o","n">>
    [] t = "q="                             -> <<"q","=">>
    [] t = "a1"                             -> <<"a","1">>
    [] t = "b2"                             -> <<"b","2">>
    [] t = ""                               -> <<>>

RECURSIVE Flatten(_)
\* the concatenation of the characters of a sequence of tokens
Flatten(toks) ==
  IF toks = <<>> THEN <<>> ELSE Chars(Head(toks)) \o Flatten(Tail(toks))

LowerAlphabet ==
  <<"a","b","c","d","e","f","g","h","i","j","k","l","m",
    "n","o","p","q","r","s","t","u","v","w","x","y","z">>

UpperAlphabet ==
  <<"A","B","C","D","E","F","G","H","I","J","K","L","M",
    "N","O","P","Q","R","S","T","U","V","W","X","Y","Z">>

IsLower(c) == \E i \in DOMAIN LowerAlphabet : LowerAlphabet[i] = c
IsUpper(c) == \E i \in DOMAIN UpperAlphabet : UpperAlphabet[i] = c

\* str.lower() on one character
LowerChar(c) ==
  IF IsUpper(c)
  THEN LowerAlphabet[CHOOSE i \in DOMAIN UpperAlphabet : UpperAlphabet[i] = c]
  ELSE c

\* str.upper() on one character
UpperChar(c) ==
  IF IsLower(c)
  THEN UpperAlphabet[CHOOSE i \in DOMAIN LowerAlphabet : LowerAlphabet[i] = c]
  ELSE c

\* str.lower()
Lower(s) == [i \in 1..Len(s) |-> LowerChar(s[i])]

\* whether sub occurs in s at position i
OccursAt(sub, s, i) ==
  /\ i + Len(sub) - 1 <= Len(s)
  /\ SubSeq(s, i, i + Len(sub) - 1) = sub

\* Python's `sub in s` for strings
Contains(sub, s) ==
  LET hay == s
      needle == sub
  IN  \E i \in 1..(Len(hay) - Len(needle) + 1) :
        SubSeq(hay, i, i + Len(needle) - 1) = needle

-----------------------------------------------------------------------------
(* Texts of page elements *)

\* Python's None where a text may stand
None == <<"#None">>

\* the least and the greatest element of a non-empty set of integers
Least(S) == CHOOSE k \in S : \A m \in S : k <= m
Greatest(S) == CHOOSE k \in S : \A m \in S : m <= k

\* str.strip(): what lies between the first and the last non-blank
Strip(t) ==
  LET inked == {i \in 1..Len(t) : t[i] # " "}
  IN  IF inked = {} THEN <<>> ELSE SubSeq(t, Least(inked), Greatest(inked))

\* Python's truth value of an optional string
Truthy(t) == t # None /\ t # <<>>

\* Python's `t or default`
OrElse(t, default) == IF Truthy(t) THEN t ELSE default

UnknownCompany == <<"Unknown Company">>
UnknownPosition == <<"Unknown Position">>
NoDescription == <<"No description available">>
ErrorMarker == "Error occurred while scraping"

\* ErrorMarker occurs in a description
HasErrorMarker(description) ==
  \E i \in 1..Len(description) : description[i] = ErrorMarker


-----------------------------------------------------------------------------
(* URLs *)

\* the pieces a host is made of
ScrapeHostTokens == {"linkedin", "indeed", "Indeed", "glassdoor", ".com", "["}

\* sequences of at most n elements of S
SeqsUpTo(S, n) == UNION {[1..k -> S] : k \in 0..n}

\* the URLs handed to scrape_job
ScrapeUrls == {[host |-> h] : h \in SeqsUpTo(ScrapeHostTokens, MaxHostToks)}

\* urlparse(url).netloc
Netloc(u) == Flatten(u.host)

\* urlparse(url) raises ValueError("Invalid IPv6 URL") on an unbalanced bracket
UrlParseRaises(u) ==
  LET n == Netloc(u)
  IN  \/ Contains(<<"[">>, n) /\ ~Contains(<<"]">>, n)
      \/ Contains(<<"]">>, n) /\ ~Contains(<<"[">>, n)

\* JobScraper._determine_source_site, applied to the lowered netloc
ScraperSourceSite(domain) ==
  IF Contains(Chars("glassdoor"), domain) THEN "glassdoor"
  ELSE IF Contains(Chars("linkedin"), domain) THEN "linkedin"
  ELSE IF Contains(Chars("indeed"), domain) THEN "indeed"
  ELSE "unknown"

-----------------------------------------------------------------------------
(* Selector chains *)

\* texts an element of a page may hold
ElementTexts == {<<>>, <<" ">>, <<"A">>, <<" ", "B", " ">>}

\* what soup.select_one(selector) gives: no element, or an element with a text
SoupOutcomes ==
  {[kind |-> "nomatch", text |-> <<>>]}
    \cup {[kind |-> "text", text |-> t] : t \in ElementTexts}

\* what driver.find_element(selector) gives: NoSuchElementException or
\* TimeoutException, an element with a text, or another WebDriverException
DriverOutcomes ==
  SoupOutcomes \cup {[kind |-> "error", text |-> <<>>]}

\* the test for an element alone, whatever its text
HasElement(out) == out.kind = "text"

\* `element and element.get_text(strip=True)` / `if text:` after strip()
HasText(out) == out.kind = "text" /\ Truthy(Strip(out.text))

\* the loops over title_selectors, company_selectors and desc_selectors of
\* _try_requests_scraping: outs[i] is what selector i finds on the page; the
\* loop breaks at the first selector with a text
SelectChain(outs) ==
  LET ends == {i \in 1..Len(outs) : HasText(outs[i])}
  IN  IF ends = {} THEN [text |-> None, evaluated |-> Len(outs)]
      ELSE [text |-> Strip(outs[Least(ends)].text), evaluated |-> Least(ends)]

\* JobScraper._find_element_with_fallbacks: outs[i] is what selector i
\* finds; the loop ends at the first selector that has a text (return) or
\* that raises an exception other than the two caught
FindElementWithFallbacks(outs) ==
  LET ends == {i \in 1..Len(outs) : HasText(outs[i]) \/ outs[i].kind = "error"}
  IN  IF ends = {}
      THEN [text |-> None, raised |-> FALSE, evaluated |-> Len(outs)]
      ELSE IF outs[Least(ends)].kind = "error"
           THEN [text |-> None, raised |-> TRUE, evaluated |-> Least(ends)]
           ELSE [text |-> Strip(outs[Least(ends)].text), raised |-> FALSE,
                 evaluated |-> Least(ends)]

\* the texts a Tier-1 chain can yield over all pages
SoupResults ==
  {SelectChain(o).text : o \in [1..ChainLen -> SoupOutcomes]}

\* the results a browser chain can have over all pages
BrowserResults ==
  {[text |-> r.text, raised |-> r.raised] :
     r \in {FindElementWithFallbacks(o) : o \in [1..ChainLen -> DriverOutcomes]}}

\* response.text / description limit of _try_requests_scraping
DescLimit == 2000

\* text[:2000]
Truncate(t) == SubSeq(t, 1, IF Len(t) < DescLimit THEN Len(t) ELSE DescLimit)

-----------------------------------------------------------------------------
(* The proxy pool *)

\* JobScraper.proxy_list as __init__ leaves it
ProxyList == <<>>

\* the lists proxy_list may be filled with ("ip:port" entries): the empty
\* one of __init__ and lists of one, two and three entries
ProxyPools == {<<>>, <<"p1">>, <<"p1", "p2">>, <<"p1", "p2", "p3">>}

\* self.proxy_list[self.current_proxy_index]
ProxyAt(list, index) == list[index + 1]

\* (self.current_proxy_index + 1) with no wrap-around
NextIndexNoWrap(list, index) == index + 1

\* (self.current_proxy_index + 1) % len(self.proxy_list)
NextIndex(list, index) == (index + 1) % Len(list)

\* JobScraper._get_next_proxy on a scraper whose pool is list: the proxy
\* returned and the index it leaves
NextProxy(list, index) ==
  IF list = <<>>
  THEN [proxy |-> "None", index |-> index]
  ELSE [proxy |-> ProxyAt(list, index), index |-> NextIndex(list, index)]

\* JobScraper._get_next_proxy: the proxy returned and the index it leaves
GetNextProxy(index) == NextProxy(ProxyList, index)


-----------------------------------------------------------------------------
(* String operations of the URL parser *)

Digits == {"0", "1", "2", "3", "4", "5", "6", "7", "8", "9"}

\* the last index of the longest run s[i..] of characters that are in S
\* (inside) or not in S (~inside); i - 1 when the run is empty
RunEnd(s, i, S, inside) ==
  LET stops == {k \in i..Len(s) : (s[k] \in S) # inside}
  IN  IF stops = {} THEN Len(s) ELSE Least(stops) - 1

\* re.search(pat + r'([S]+)', s) or re.search(pat + r'([^S]+)', s): group 1 of
\* the leftmost match, None without a match
SearchGroup(pat, s, S, inside) ==
  LET starts == {i \in 1..Len(s) :
                   /\ OccursAt(pat, s, i)
                   /\ i + Len(pat) <= Len(s)
                   /\ (s[i + Len(pat)] \in S) = inside}
  IN  IF starts = {} THEN None
      ELSE LET i == Least(starts)
               b == i + Len(pat)
           IN  SubSeq(s, b, RunEnd(s, b, S, inside))

RECURSIVE ReplaceAll(_, _, _)
\* str.replace(old, new)
ReplaceAll(s, old, new) ==
  IF s = <<>> THEN <<>>
  ELSE IF OccursAt(old, s, 1)
       THEN new \o ReplaceAll(SubSeq(s, Len(old) + 1, Len(s)), old, new)
       ELSE <<Head(s)>> \o ReplaceAll(Tail(s), old, new)

RECURSIVE Split(_, _)
\* str.split(sep) for a one-character sep
Split(s, sep) ==
  LET cuts == {i \in 1..Len(s) : s[i] = sep}
  IN  IF cuts = {} THEN <<s>>
      ELSE LET i == Least(cuts)
           IN  <<SubSeq(s, 1, i - 1)>> \o Split(SubSeq(s, i + 1, Len(s)), sep)

RECURSIVE Join(_, _)
\* sep.join(parts)
Join(parts, sep) ==
  IF parts = <<>> THEN <<>>
  ELSE IF Len(parts) = 1 THEN parts[1]
       ELSE parts[1] \o sep \o Join(Tail(parts), sep)

RECURSIVE StripChar(_, _)
\* str.strip(c) for a one-character c
StripChar(s, c) ==
  IF s # <<>> /\ Head(s) = c THEN StripChar(Tail(s), c)
  ELSE IF s # <<>> /\ s[Len(s)] = c THEN StripChar(SubSeq(s, 1, Len(s) - 1), c)
       ELSE s

RECURSIVE TitleFrom(_, _)
\* str.title() on s, the character before it being cased or not
TitleFrom(s, after_cased) ==
  IF s = <<>> THEN <<>>
  ELSE LET c == Head(s)
           cased == IsLower(c) \/ IsUpper(c)
       IN  <<IF after_cased THEN LowerChar(c) ELSE UpperChar(c)>>
             \o TitleFrom(Tail(s), cased)

\* str.title()
Title(s) == TitleFrom(s, FALSE)

\* the first index of x in the sequence s, 0 if it is not there
IndexOf(s, x) ==
  IF \E i \in DOMAIN s : s[i] = x
  THEN CHOOSE i \in DOMAIN s : s[i] = x /\ \A j \in 1..(i - 1) : s[j] # x
  ELSE 0

\* dict.update
Update(d, m) ==
  [k \in DOMAIN d \cup DOMAIN m |-> IF k \in DOMAIN m THEN m[k] ELSE d[k]]

-----------------------------------------------------------------------------
(* URLs handed to the URL parser *)

\* largest URL handed to parse_job_url: host tokens plus query parameters
MaxUrlParts == 3

\* the pieces a host handed to parse_job_url is made of
ParseHostTokens ==
  {"www.", "linkedin.com", "indeed.com", "indeed.co.uk", "glassdoor.com",
   "jobs.google.com", "ziprecruiter.com", "["}

\* the paths: each a sequence of segments
ParsePaths ==
  {<<>>,
   <<"jobs", "view", "12">>,
   <<"company", "acme-co">>,
   <<"job", "qa-lead-acme-co-JV_ID7.htm">>}

\* the query parameters
QueryParams ==
  {[name |-> "jk", value |-> "a1"], [name |-> "vjk", value |-> "b2"],
   [name |-> "q", value |-> "a1"], [name |-> "seq", value |-> "a1"],
   [name |-> "l", value |-> "b2"]}

\* whether u is one of the URLs handed to parse_job_url: a host, a path and
\* a query string of MaxUrlParts host tokens and parameters at most
IsParseUrl(u) ==
  \E n \in 0..MaxUrlParts, m \in 0..MaxUrlParts :
    /\ n + m <= MaxUrlParts
    /\ \E h \in [1..n -> ParseHostTokens], q \in [1..m -> QueryParams],
          p \in ParsePaths :
         u = [host |-> h, path |-> p, query |-> q]

RECURSIVE PathChars(_)
\* urlparse(url).path
PathChars(segments) ==
  IF segments = <<>> THEN <<>>
  ELSE Chars("/") \o Chars(Head(segments)) \o PathChars(Tail(segments))

RECURSIVE QueryChars(_)
\* urlparse(url).query
QueryChars(params) ==
  IF params = <<>> THEN <<>>
  ELSE Chars(Head(params).name) \o Chars("=") \o Chars(Head(params).value)
         \o (IF Len(params) > 1 THEN Chars("&") ELSE <<>>)
         \o QueryChars(Tail(params))

\* the URL as the string the caller passes
UrlString(u) ==
  Chars("https://") \o Flatten(u.host) \o PathChars(u.path)
    \o (IF u.query = <<>> THEN <<>> ELSE Chars("?") \o QueryChars(u.query))

\* parse_qs(query).get(name, [None])[0]: the first non-blank value of name
QueryGet(params, name) ==
  LET hits == {i \in DOMAIN params :
                 params[i].name = name /\ params[i].value # ""}
  IN  IF hits = {} THEN None
      ELSE Chars(params[Least(hits)].value)

-----------------------------------------------------------------------------
(* SmartJobURLParser: classification and the per-site parsers *)

\* SmartJobURLParser.company_patterns, in insertion order
CompanyPatterns ==
  <<"linkedin.com", "indeed.com", "glassdoor.com", "jobs.google.com",
    "ziprecruiter.com">>

\* self.common_job_titles
CommonJobTitles ==
  <<"Software Engineer", "Data Scientist", "Product Manager", "Designer",
    "Marketing Manager", "Sales Representative", "Project Manager",
    "Business Analyst", "DevOps Engineer", "Frontend Developer",
    "Backend Developer", "Full Stack Developer", "UX Designer",
    "Data Analyst", "Technical Writer", "QA Engineer", "Consultant">>

\* self.common_job_titles[:10]
SuggestedTitles == SubSeq(CommonJobTitles, 1, 10)

\* re.sub(r'^www\.', '', domain)
StripWww(domain) ==
  IF OccursAt(Chars("www."), domain, 1)
  THEN SubSeq(domain, Len(Chars("www.")) + 1, Len(domain))
  ELSE domain

\* domain of parse_job_url: the netloc, lowered, without a leading www.
ParseDomain(u) == StripWww(Lower(Netloc(u)))

\* SmartJobURLParser._determine_source_site
ParserSourceSite(domain) ==
  IF Contains(Chars("linkedin"), domain) THEN "linkedin"
  ELSE IF Contains(Chars("indeed"), domain) THEN "indeed"
  ELSE IF Contains(Chars("glassdoor"), domain) THEN "glassdoor"
  ELSE IF Contains(Chars("google"), domain) THEN "google_jobs"
  ELSE IF Contains(Chars("ziprecruiter"), domain) THEN "ziprecruiter"
  ELSE "other"

\* the loop over company_patterns: the first pattern that occurs in domain,
\* "none" if no pattern does
MatchedPattern(domain) ==
  LET hits == {i \in DOMAIN CompanyPatterns :
                 Contains(Chars(CompanyPatterns[i]), domain)}
  IN  IF hits = {} THEN "none"
      ELSE CompanyPatterns[Least(hits)]

\* what a per-site parser gives: a dict, or the exception it raises
Parsed(d) == [raised |-> FALSE, data |-> d]
Raises(e) == [raised |-> TRUE, error |-> e]

\* the message of the ValueError of _parse_indeed_url
SearchResultsError == "This appears to be a search results URL without a specific job selected."

\* _parse_linkedin_url without the search for /jobs/view/<digits>
ParseLinkedinUrlNoJobId(u) ==
  LET slug == SearchGroup(Chars("linkedin.com/company/"), UrlString(u),
                          {"/", "?"}, FALSE)
      company_name ==
        IF slug = None THEN None
        ELSE Title(ReplaceAll(slug, Chars("-"), Chars(" ")))
  IN  Parsed([job_id       |-> None,
              company_name |-> company_name,
              parsed_data  |-> [linkedin_job_id |-> None]])

\* SmartJobURLParser._parse_linkedin_url
ParseLinkedinUrl(u) ==
  LET job_id == SearchGroup(Chars("/jobs/view/"), UrlString(u), Digits, TRUE)
      slug == SearchGroup(Chars("linkedin.com/company/"), UrlString(u),
                          {"/", "?"}, FALSE)
      company_name ==
        IF slug = None THEN None
        ELSE Title(ReplaceAll(slug, Chars("-"), Chars(" ")))
  IN  Parsed([job_id       |-> job_id,
              company_name |-> company_name,
              parsed_data  |-> [linkedin_job_id |-> job_id]])

\* `'q=' in parsed_url.query`
HasSearchQuery(query) == Contains(Chars("q="), QueryChars(query))

\* SmartJobURLParser._parse_indeed_url
ParseIndeedUrl(u) ==
  LET job_id == OrElse(QueryGet(u.query, "jk"), QueryGet(u.query, "vjk"))
  IN  IF ~Truthy(job_id) /\ HasSearchQuery(u.query)
      THEN Raises(SearchResultsError)
      ELSE Parsed([job_id      |-> job_id,
                   location    |-> QueryGet(u.query, "l"),
                   parsed_data |-> [indeed_job_key |-> job_id]])

\* SmartJobURLParser._parse_glassdoor_url
ParseGlassdoorUrl(u) ==
  LET job_id == SearchGroup(Chars("JV_ID"), UrlString(u), Digits, TRUE)
      path_parts == Split(PathChars(u.path), "/")
      job_listing_part ==
        ReplaceAll(ReplaceAll(path_parts[Len(path_parts)], Chars(".htm"), <<>>),
                   Chars("-"), Chars(" "))
      parts == Split(job_listing_part, " ")
  IN  IF Len(path_parts) > 2 /\ Len(parts) >= 3
      THEN Parsed([job_id       |-> job_id,
                   job_title    |-> Title(Join(SubSeq(parts, 1, 2), Chars(" "))),
                   company_name |->
                     Title(Join(SubSeq(parts, 3, IF Len(parts) < 4
                                                 THEN Len(parts) ELSE 4),
                                Chars(" "))),
                   parsed_data  |-> [glassdoor_job_id |-> job_id]])
      ELSE Parsed([job_id      |-> job_id,
                   parsed_data |-> [glassdoor_job_id |-> job_id]])

\* SmartJobURLParser._parse_google_jobs_url
ParseGoogleJobsUrl(u) ==
  LET location == OrElse(QueryGet(u.query, "l"), QueryGet(u.query, "location"))
      query == QueryGet(u.query, "q")
  IN  Parsed([job_title   |-> query,
              location    |-> location,
              parsed_data |-> [google_jobs_query |-> query]])

\* SmartJobURLParser._parse_ziprecruiter_url
ParseZiprecruiterUrl(u) ==
  LET path_parts == Split(StripChar(PathChars(u.path), "/"), "/")
      jobs_index == IndexOf(path_parts, Chars("jobs"))
  IN  IF jobs_index > 0 /\ Len(path_parts) > jobs_index
      THEN Parsed([company_name |->
                     Title(ReplaceAll(path_parts[jobs_index + 1],
                                      Chars("-"), Chars(" ")))])
      ELSE Parsed(<<>>)

\* parser_func(url, parsed_url) for the matched entry of company_patterns
RunParser(pattern, u) ==
  CASE pattern = "linkedin.com"     -> ParseLinkedinUrl(u)
    [] pattern = "indeed.com"       -> ParseIndeedUrl(u)
    [] pattern = "glassdoor.com"    -> ParseGlassdoorUrl(u)
    [] pattern = "jobs.google.com"  -> ParseGoogleJobsUrl(u)
    [] pattern = "ziprecruiter.com" -> ParseZiprecruiterUrl(u)

\* the dict parse_job_url starts from
InitialResult(u, domain) ==
  [job_url          |-> UrlString(u),
   source_site      |-> ParserSourceSite(domain),
   job_id           |-> None,
   company_name     |-> None,
   job_title        |-> None,
   location         |-> None,
   suggested_titles |-> SuggestedTitles,
   parsed_data      |-> <<>>]

\* ParseFailure without the error entry
ParseFailureNoError(u, e) ==
  [job_url          |-> UrlString(u),
   source_site      |-> "unknown",
   job_id           |-> None,
   company_name     |-> None,
   job_title        |-> None,
   location         |-> None,
   suggested_titles |-> SuggestedTitles]

\* the dict of the `except Exception as e` branch of parse_job_url
ParseFailure(u, e) ==
  [job_url          |-> UrlString(u),
   source_site      |-> "unknown",
   job_id           |-> None,
   company_name     |-> None,
   job_title        |-> None,
   location         |-> None,
   suggested_titles |-> SuggestedTitles,
   error            |-> e]

-----------------------------------------------------------------------------
(* JobScraper.scrape_job *)

VARIABLES
  url,                  \* the argument of scrape_job
  pc,                   \* where the call stands
  source_site,          \* local source_site
  requests_result,      \* local requests_result: a dict, or NoneResult
  driver,               \* local driver: "None" or the driver object
  job_data,             \* local job_data of the Tier-2 branch
  ret,                  \* the value the call returns
  current_proxy_index,  \* JobScraper.current_proxy_index
  snapshots,            \* the files written under snapshots_dir
  chrome,               \* Chrome processes launched and not terminated
  acquire_calls,        \* history: calls of _get_chrome_driver
  quit_calls,           \* history: calls of driver.quit()
  fetch,                \* history: how the Tier-1 fetch ended
  failure,              \* history: the exception caught at `except Exception`
  tier1_save,           \* history: how the Tier-1 snapshot save ended
  tier2_save,           \* history: how the Tier-2 snapshot save ended
  extracted,            \* history: job_data as the extractor produced it
  response,             \* add_application: the status of its response
  accepted,             \* add_application: history, the branch it took
  persisted,            \* add_application: history, it added a row
  db                    \* the rows of the applications table

\* SmartJobURLParser.parse_job_url
VARIABLES
  p_url,                \* the argument of parse_job_url
  p_pc,                 \* where the call stands
  p_result,             \* local result, and the dict the call returns
  p_parser,             \* history: the entry of company_patterns that ran
  p_failure,            \* history: the exception caught at `except Exception`
  p_meta,               \* history: how _get_page_metadata ended
  p_before,             \* history: result before `result.update(metadata)`
  p_metadata            \* history: the dict _get_page_metadata returned

svars ==
  <<url, pc, source_site, requests_result, driver, job_data, ret,
    current_proxy_index, snapshots, chrome, acquire_calls, quit_calls,
    fetch, failure, tier1_save,
    tier2_save, extracted, response, accepted, persisted, db>>

\* what scrape_job leaves to its caller
caller == <<response, accepted, persisted, db>>

pvars ==
  <<p_url, p_pc, p_result, p_parser, p_failure, p_meta, p_before, p_metadata>>

\* one run of a selector chain
VARIABLES
  c_kind,               \* "soup": a Tier-1 loop; "driver": _find_element_with_fallbacks
  c_outs,               \* what each selector of the chain finds on the page
  c_i,                  \* the position of the loop in the chain
  c_calls,              \* history: how often each selector was evaluated
  c_ret,                \* the text the chain yields
  c_pc                  \* where the run stands

cvars == <<c_kind, c_outs, c_i, c_calls, c_ret, c_pc>>

\* the proxy rotation of a JobScraper and the requests of a process
VARIABLES
  proxy_list,           \* JobScraper.proxy_list
  rot_index,            \* JobScraper.current_proxy_index of the scraper in use
  t_pc,                 \* per caller: where its call of _get_next_proxy stands
  t_proxy,              \* per caller: local proxy
  t_next,               \* per caller: the value computed for the index
  t_calls,              \* per caller: calls of _get_next_proxy made
  rot_returns,          \* history: the values _get_next_proxy returned
  rot_overlap,          \* history: two calls were under way at once
  req_pc,               \* where the request being served stands
  req_n,                \* requests started
  req_left              \* history: the index the previous request left

rvars ==
  <<proxy_list, rot_index, t_pc, t_proxy, t_next, t_calls, rot_returns,
    rot_overlap, req_pc, req_n, req_left>>

\* the two classifications of one host
VARIABLES
  h_host,               \* the host, in pieces
  h_scraper,            \* what JobScraper._determine_source_site returned
  h_parser              \* what SmartJobURLParser._determine_source_site returned

hvars == <<h_host, h_scraper, h_parser>>

\* what an action of scrape_job, of parse_job_url, of a chain, of the
\* rotation, of a classification leaves alone
besides_scrape == <<pvars, cvars, rvars, hvars>>
besides_parse == <<svars, cvars, rvars, hvars>>
besides_chain == <<svars, pvars, rvars, hvars>>
besides_rotation == <<svars, pvars, cvars, hvars>>
besides_classes == <<svars, pvars, cvars, rvars>>

vars == <<svars, pvars, cvars, rvars, hvars>>

\* Python's None where a dict may stand
NoneResult == <<>>

\* str(uuid.uuid4()) of the call
JobId == "job-1"

\* os.path.join(self.snapshots_dir, f"{job_id}.html")
SnapshotPath(id) == <<"../snapshots/", id, ".html">>

\* Tier1Result without the `or "Unknown Company"` / `or "Unknown Position"`
Tier1ResultNoPlaceholder(job_title, company_name, job_description) ==
  IF Truthy(job_title) \/ Truthy(company_name)
  THEN [company_name      |-> company_name,
        job_title         |-> job_title,
        job_description   |-> OrElse(job_description, NoDescription),
        html_content      |-> "response.text",
        extraction_method |-> "requests"]
  ELSE NoneResult

\* Tier1Result without the extraction_method entry
Tier1ResultNoMethod(job_title, company_name, job_description) ==
  IF Truthy(job_title) \/ Truthy(company_name)
  THEN [company_name      |-> OrElse(company_name, UnknownCompany),
        job_title         |-> OrElse(job_title, UnknownPosition),
        job_description   |-> OrElse(job_description, NoDescription),
        html_content      |-> "response.text"]
  ELSE NoneResult

\* the dict _try_requests_scraping returns on HTTP 200, or None
Tier1Result(job_title, company_name, job_description) ==
  IF Truthy(job_title) \/ Truthy(company_name)
  THEN [company_name      |-> OrElse(company_name, UnknownCompany),
        job_title         |-> OrElse(job_title, UnknownPosition),
        job_description   |-> OrElse(job_description, NoDescription),
        html_content      |-> "response.text",
        extraction_method |-> "requests"]
  ELSE NoneResult

\* the dict the Tier-1 branch of scrape_job returns once the snapshot is saved
Tier1Return(result, html_path, site) ==
  [k \in (DOMAIN result \cup {"html_snapshot_path", "source_site"})
         \ {"html_content"} |->
     IF k = "html_snapshot_path" THEN html_path
     ELSE IF k = "source_site" THEN site
     ELSE result[k]]

\* the dict _scrape_linkedin, _scrape_glassdoor and _scrape_indeed return
SiteJobData(site, company, title, description) ==
  [company_name    |-> OrElse(company, UnknownCompany),
   job_title       |-> OrElse(title, UnknownPosition),
   job_description |-> OrElse(description, NoDescription),
   source_site     |-> site]

\* the dict of the generic branch of scrape_job
GenericJobData(site, generic_title) ==
  [company_name    |-> UnknownCompany,
   job_title       |-> OrElse(generic_title, UnknownPosition),
   job_description |-> NoDescription,
   source_site     |-> site]

\* job_data replaced by the snapshot path alone
WithSnapshotPathOnly(data, path) == [html_snapshot_path |-> path]

\* job_data["html_snapshot_path"] = path
WithSnapshotPath(data, path) ==
  [k \in DOMAIN data \cup {"html_snapshot_path"} |->
     IF k = "html_snapshot_path" THEN path ELSE data[k]]

\* FailureResult with a fixed source_site instead of the classification
FailureResultUnknownSite(site, e) ==
  [company_name       |-> UnknownCompany,
   job_title          |-> UnknownPosition,
   job_description    |-> <<ErrorMarker, ": ", e>>,
   source_site        |-> "unknown",
   html_snapshot_path |-> "None"]

\* the dict of the `except Exception as e` branch of scrape_job
FailureResult(site, e) ==
  [company_name       |-> UnknownCompany,
   job_title          |-> UnknownPosition,
   job_description    |-> <<ErrorMarker, ": ", e>>,
   source_site        |-> site,
   html_snapshot_path |-> "None"]

\* `if requests_result:` with the test inverted
Tier1SucceededInverted(result) == result = NoneResult

\* `if requests_result:` taken whatever the result
Tier1SucceededAlways(result) == TRUE

\* `if requests_result:` never taken
Tier1SucceededNever(result) == FALSE

\* `if requests_result:`
Tier1Succeeded(result) == result # NoneResult

\* driver.quit() left to the normal path, out of a finally clause
MustQuitOnSuccess(d) == d # "None" /\ failure = "none"

\* `if driver:` of the finally clause
MustQuit(d) == d # "None"

\* no call of parse_job_url is under way
ParseIdle ==
  /\ p_url = [host |-> <<>>, path |-> <<>>, query |-> <<>>]
  /\ p_pc = "idle"
  /\ p_result = <<>>
  /\ p_parser = "none"
  /\ p_failure = "none"
  /\ p_meta = "none"
  /\ p_before = <<>>
  /\ p_metadata = <<>>

\* dict.get(key, default)
DictGet(d, key, default) == IF key \in DOMAIN d THEN d[key] ELSE default

\* scraped_successfully without the test of job_title
ScrapedSuccessfullyNoTitle(data) ==
  /\ DictGet(data, "company_name", None) \notin {UnknownCompany, <<>>}
  /\ ~HasErrorMarker(DictGet(data, "job_description", <<>>))

\* scraped_successfully of add_application
ScrapedSuccessfully(data) ==
  /\ DictGet(data, "company_name", None) \notin {UnknownCompany, <<>>}
  /\ DictGet(data, "job_title", None) \notin {UnknownPosition, <<>>}
  /\ ~HasErrorMarker(DictGet(data, "job_description", <<>>))

\* job_data.get("extraction_method") == "requests"
ByRequests(data) == DictGet(data, "extraction_method", "None") = "requests"

\* the JobApplicationDB row add_application builds from job_data
NewRow(data, u) ==
  [company_name       |-> data.company_name,
   job_title          |-> data.job_title,
   job_url            |-> u,
   source_site        |-> data.source_site,
   job_description    |-> DictGet(data, "job_description", NoDescription),
   html_snapshot_path |-> DictGet(data, "html_snapshot_path", "None"),
   status             |-> "applied"]

\* a row an earlier request stored for the same URL
ExistingRow(u) ==
  [company_name       |-> <<"Earlier">>,
   job_title          |-> <<"Earlier">>,
   job_url            |-> u,
   source_site        |-> "unknown",
   job_description    |-> NoDescription,
   html_snapshot_path |-> "None",
   status             |-> "applied"]

\* no selector chain is being run on its own
ChainIdle ==
  /\ c_kind = "none"
  /\ c_outs = <<>>
  /\ c_i = 0
  /\ c_calls = <<>>
  /\ c_ret = None
  /\ c_pc = "idle"

\* callers of _get_next_proxy on one JobScraper
Callers == {"a", "b"}

\* no rotation is observed: the pool of __init__, nobody calling
RotateIdle ==
  /\ proxy_list = ProxyList
  /\ rot_index = 0
  /\ t_pc = [t \in Callers |-> "idle"]
  /\ t_proxy = [t \in Callers |-> "None"]
  /\ t_next = [t \in Callers |-> 0]
  /\ t_calls = [t \in Callers |-> 0]
  /\ rot_returns = <<>>
  /\ rot_overlap = FALSE
  /\ req_pc = "idle"
  /\ req_n = 0
  /\ req_left = 0

\* no host is being classified on its own
ClassIdle ==
  /\ h_host = <<>>
  /\ h_scraper = "idle"
  /\ h_parser = "idle"

\* no call of parse_job_url and no other operation is under way
ScrapeAlone == ParseIdle /\ ChainIdle /\ RotateIdle /\ ClassIdle

ScrapeInit ==
  /\ url \in ScrapeUrls
  /\ pc = "start"
  /\ source_site = "None"
  /\ requests_result = NoneResult
  /\ driver = "None"
  /\ job_data = NoneResult
  /\ ret = NoneResult
  /\ current_proxy_index = 0
  /\ snapshots = {}
  /\ chrome = 0
  /\ acquire_calls = 0
  /\ quit_calls = 0
  /\ fetch = "none"
  /\ failure = "none"
  /\ tier1_save = "none"
  /\ tier2_save = "none"
  /\ extracted = NoneResult
  /\ response = "none"
  /\ accepted = "none"
  /\ persisted = FALSE
  /\ db \in {{}, {ExistingRow(url)}}

\* source_site = self._determine_source_site(url); job_id = str(uuid.uuid4())
Classify ==
  /\ pc = "start"
  /\ UNCHANGED besides_scrape
  /\ UNCHANGED caller
  /\ UNCHANGED <<tier2_save, extracted>>
  /\ \/ /\ UrlParseRaises(url)
        /\ pc' = "raised"
        /\ UNCHANGED source_site
     \/ /\ ~UrlParseRaises(url)
        /\ source_site' = ScraperSourceSite(Lower(Netloc(url)))
        /\ pc' = "tier1"
  /\ UNCHANGED <<url, requests_result, driver, job_data, ret,
                 current_proxy_index, snapshots, chrome, acquire_calls,
                 quit_calls, fetch, failure, tier1_save>>

\* requests_result = self._try_requests_scraping(url)
TryRequestsScraping ==
  /\ pc = "tier1"
  /\ UNCHANGED besides_scrape
  /\ UNCHANGED caller
  /\ UNCHANGED <<tier2_save, extracted>>
  /\ current_proxy_index' = GetNextProxy(current_proxy_index).index
  /\ \/ \* requests.get or BeautifulSoup raises: caught, None
        /\ fetch' = "raised"
        /\ requests_result' = NoneResult
     \/ \* a status other than 200
        /\ \E status \in {404, 500} : fetch' = "non200"
        /\ requests_result' = NoneResult
     \/ \* HTTP 200: the three selector chains over the parsed page
        /\ fetch' = "200"
        /\ \E t \in SoupResults, c \in SoupResults, d \in SoupResults :
             requests_result' =
               Tier1Result(t, c, IF d = None THEN None ELSE Truncate(d))
  /\ pc' = IF Tier1Succeeded(requests_result') THEN "t1save" ELSE "tier2"
  /\ UNCHANGED <<url, source_site, driver, job_data, ret, snapshots, chrome,
                 acquire_calls, quit_calls, failure, tier1_save>>

\* the `if requests_result:` block: save the snapshot and return, or log
SaveTier1Snapshot ==
  /\ pc = "t1save"
  /\ UNCHANGED besides_scrape
  /\ UNCHANGED caller
  /\ UNCHANGED <<tier2_save, extracted>>
  /\ \/ \* _save_html_snapshot wrote the file
        /\ snapshots' = snapshots \cup {JobId}
        /\ ret' = Tier1Return(requests_result, SnapshotPath(JobId), source_site)
        /\ pc' = "returned"
        /\ tier1_save' = "saved"
     \/ \* _save_html_snapshot raised: logged, execution goes on to Step 2
        /\ tier1_save' = "raised"
        /\ pc' = "tier2"
        /\ UNCHANGED <<snapshots, ret>>
  /\ UNCHANGED <<url, source_site, requests_result, driver, job_data,
                 current_proxy_index, chrome, acquire_calls, quit_calls,
                 fetch, failure>>

\* driver = self._get_chrome_driver()
GetChromeDriver ==
  /\ pc = "tier2"
  /\ UNCHANGED besides_scrape
  /\ UNCHANGED caller
  /\ UNCHANGED <<tier2_save, extracted>>
  /\ acquire_calls' = acquire_calls + 1
  /\ current_proxy_index' = GetNextProxy(current_proxy_index).index
  /\ \/ \* ChromeDriverManager().install() or webdriver.Chrome(...) raises
        /\ failure' = "launch"
        /\ ret' = FailureResult(source_site, "launch")
        /\ pc' = "finally"
        /\ UNCHANGED <<driver, chrome>>
     \/ \* Chrome runs, stealth(driver, ...) raises: driver is never assigned
        /\ chrome' = chrome + 1
        /\ failure' = "stealth"
        /\ ret' = FailureResult(source_site, "stealth")
        /\ pc' = "finally"
        /\ UNCHANGED driver
     \/ \* the configured driver is returned
        /\ chrome' = chrome + 1
        /\ driver' = "driver"
        /\ pc' = "extract"
        /\ UNCHANGED <<failure, ret>>
  /\ UNCHANGED <<url, source_site, requests_result, job_data, snapshots,
                 quit_calls, fetch, tier1_save>>

\* the dispatch on source_site: driver.get(url) and the selector chains
SiteExtractor ==
  /\ pc = "extract"
  /\ UNCHANGED besides_scrape
  /\ UNCHANGED caller
  /\ UNCHANGED tier2_save
  /\ \/ \* driver.get(url) raises
        /\ failure' = "navigation"
        /\ ret' = FailureResult(source_site, "navigation")
        /\ pc' = "finally"
        /\ UNCHANGED job_data
     \/ \* _scrape_linkedin, _scrape_glassdoor, _scrape_indeed
        /\ source_site \in {"linkedin", "glassdoor", "indeed"}
        /\ \E c \in BrowserResults, t \in BrowserResults, d \in BrowserResults :
             IF c.raised \/ t.raised \/ d.raised
             THEN /\ failure' = "extractor"
                  /\ ret' = FailureResult(source_site, "extractor")
                  /\ pc' = "finally"
                  /\ UNCHANGED job_data
             ELSE /\ job_data' = SiteJobData(source_site, c.text, t.text, d.text)
                  /\ pc' = "t2save"
                  /\ UNCHANGED <<failure, ret>>
     \/ \* the generic branch
        /\ source_site \notin {"linkedin", "glassdoor", "indeed"}
        /\ \E t \in BrowserResults :
             IF t.raised
             THEN /\ failure' = "extractor"
                  /\ ret' = FailureResult(source_site, "extractor")
                  /\ pc' = "finally"
                  /\ UNCHANGED job_data
             ELSE /\ job_data' = GenericJobData(source_site, t.text)
                  /\ pc' = "t2save"
                  /\ UNCHANGED <<failure, ret>>
  /\ extracted' = job_data'
  /\ UNCHANGED <<url, source_site, requests_result, driver,
                 current_proxy_index, snapshots, chrome, acquire_calls,
                 quit_calls, fetch, tier1_save>>

\* the `# Save HTML snapshot` block of the Tier-2 branch, and `return job_data`
SaveTier2Snapshot ==
  /\ pc = "t2save"
  /\ UNCHANGED besides_scrape
  /\ UNCHANGED caller
  /\ UNCHANGED extracted
  /\ \/ \* page_source read and file written
        /\ snapshots' = snapshots \cup {JobId}
        /\ job_data' = WithSnapshotPath(job_data, SnapshotPath(JobId))
        /\ tier2_save' = "saved"
     \/ \* driver.page_source or _save_html_snapshot raised: logged
        /\ job_data' = WithSnapshotPath(job_data, "None")
        /\ tier2_save' = "raised"
        /\ UNCHANGED snapshots
  /\ ret' = job_data'
  /\ pc' = "finally"
  /\ UNCHANGED <<url, source_site, requests_result, driver,
                 current_proxy_index, chrome, acquire_calls, quit_calls,
                 fetch, failure, tier1_save>>

\* the finally clause: `if driver:` driver.quit(), whose exception is
\* swallowed; quit() stops the driver service whether or not it raises
Finally ==
  /\ pc = "finally"
  /\ UNCHANGED besides_scrape
  /\ UNCHANGED caller
  /\ UNCHANGED <<tier2_save, extracted>>
  /\ IF MustQuit(driver)
     THEN /\ quit_calls' = quit_calls + 1
          /\ chrome' = chrome - 1
     ELSE UNCHANGED <<quit_calls, chrome>>
  /\ pc' = "returned"
  /\ UNCHANGED <<url, source_site, requests_result, driver, job_data, ret,
                 current_proxy_index, snapshots, acquire_calls, fetch,
                 failure, tier1_save>>

\* add_application after `await scraper.scrape_job(...)`: the test of the
\* result, the duplicate check and the insert, or the 422 response
AddApplication ==
  /\ pc \in {"returned", "raised"}
  /\ UNCHANGED besides_scrape
  /\ \/ \* scrape_job raised: `except Exception`
        /\ pc = "raised"
        /\ response' = "422"
        /\ accepted' = "raised"
        /\ UNCHANGED <<persisted, db>>
     \/ \* the result is accepted
        /\ pc = "returned"
        /\ ScrapedSuccessfully(ret) \/ ByRequests(ret)
        /\ accepted' = "yes"
        /\ \/ \* the URL is stored already: the stored row is returned
              /\ \E row \in db : row.job_url = url
              /\ response' = "200"
              /\ UNCHANGED <<persisted, db>>
           \/ \* the row is added and committed
              /\ ~\E row \in db : row.job_url = url
              /\ db' = db \cup {NewRow(ret, url)}
              /\ persisted' = TRUE
              /\ response' = "200"
           \/ \* the database raises: `except Exception`
              /\ response' = "422"
              /\ UNCHANGED <<persisted, db>>
     \/ \* the result is refused: manual entry
        /\ pc = "returned"
        /\ ~(ScrapedSuccessfully(ret) \/ ByRequests(ret))
        /\ accepted' = "no"
        /\ response' = "422"
        /\ UNCHANGED <<persisted, db>>
  /\ pc' = IF pc = "raised" THEN "errored" ELSE "responded"
  /\ UNCHANGED <<url, source_site, requests_result, driver, job_data, ret,
                 current_proxy_index, snapshots, chrome, acquire_calls,
                 quit_calls, fetch, failure, tier1_save, tier2_save,
                 extracted>>

Next ==
  \/ AddApplication
  \/ Classify
  \/ TryRequestsScraping
  \/ SaveTier1Snapshot
  \/ GetChromeDriver
  \/ SiteExtractor
  \/ SaveTier2Snapshot
  \/ Finally

Init == ScrapeInit /\ ScrapeAlone

Spec == Init /\ [][Next]_vars


-----------------------------------------------------------------------------
(* Properties of scrape_job *)

\* the call has returned a result to its caller
Returned == pc \in {"returned", "responded"}

\* C1: in a call in which _get_chrome_driver returned a driver, driver.quit()
\* is invoked exactly once before the call returns, after a normal extraction
\* and after a raising one; it is never invoked twice, and not before the
\* finally clause.
C1_QuitExactlyOnce ==
  /\ quit_calls <= 1
  /\ (Returned /\ driver # "None") => quit_calls = 1
  /\ (~Returned) => quit_calls = 0

\* C1 witness: the extractor raised in a call that held a driver, and the
\* call returned with quit() invoked once
C1_Witness ==
  /\ Returned
  /\ driver # "None"
  /\ failure = "extractor"
  /\ quit_calls = 1

\* C2: when the call returns, no Chrome process launched during it is left
\* running.
C2_NoProcessLeft == (pc \in {"returned", "raised"}) => chrome = 0

\* C3: scrape_job never raises to its caller.
C3_NeverRaises == pc # "raised"

\* C4: every returned result has a source_site and non-empty company_name
\* and job_title strings, none of them None.
C4_FieldsPresent ==
  Returned =>
    /\ {"source_site", "company_name", "job_title"} \subseteq DOMAIN ret
    /\ ret.source_site \in {"linkedin", "glassdoor", "indeed", "unknown"}
    /\ Truthy(ret.company_name)
    /\ Truthy(ret.job_title)

\* C4 witness: Tier 1 found a title and no company, and the result carries
\* the company placeholder
C4_Witness ==
  /\ Returned
  /\ tier1_save = "saved"
  /\ ret.company_name = UnknownCompany
  /\ ret.job_title = <<"A">>

\* C5 as stated: whenever Tier 1 met its success criterion, the snapshot is
\* persisted, the Tier-1 result is returned and _get_chrome_driver was never
\* called.
C5_Tier1SuccessSkipsTier2 ==
  (Returned /\ requests_result # NoneResult) =>
    /\ JobId \in snapshots
    /\ acquire_calls = 0
    /\ ret = Tier1Return(requests_result, SnapshotPath(JobId), source_site)

\* C5 amended: when Tier 1 met its success criterion and the snapshot save
\* succeeded, the call returns the Tier-1 result at once and never calls
\* _get_chrome_driver; when the save raised, the call goes on to Tier 2,
\* acquires one session and returns a Tier-2 result.
C5_Tier1SuccessAndSave ==
  /\ (requests_result # NoneResult /\ pc # "t1save") =>
       tier1_save \in {"saved", "raised"}
  /\ tier1_save = "saved" =>
       /\ Returned
       /\ JobId \in snapshots
       /\ acquire_calls = 0
       /\ ret = Tier1Return(requests_result, SnapshotPath(JobId), source_site)
  /\ (Returned /\ tier1_save = "raised") =>
       /\ acquire_calls = 1
       /\ "extraction_method" \notin DOMAIN ret

\* C5 witness: Tier 1 succeeded, the save raised and Tier 2 produced the result
C5_Witness ==
  /\ Returned
  /\ requests_result # NoneResult
  /\ tier1_save = "raised"
  /\ acquire_calls = 1
  /\ failure = "none"

\* C6: when the Tier-1 fetch returned a non-200 status or raised, Tier 2 runs
\* and _get_chrome_driver is called exactly once; no call acquires two
\* sessions.
C6_AcquireOnce ==
  /\ acquire_calls <= 1
  /\ (Returned /\ fetch \in {"non200", "raised"}) => acquire_calls = 1
  /\ (fetch \in {"non200", "raised"} /\ pc \notin {"tier2", "returned"}) =>
       acquire_calls = 1

\* C6 witness: a non-200 fetch, then a call that acquired once and returned
C6_Witness ==
  /\ Returned
  /\ fetch = "non200"
  /\ acquire_calls = 1

\* C7: after a failure caught by `except Exception`, the result has both
\* placeholders, a description made of the error marker and the failure
\* detail, the classification of the URL as source_site and no snapshot.
C7_FailureResult ==
  (Returned /\ failure # "none") =>
    /\ ret.company_name = UnknownCompany
    /\ ret.job_title = UnknownPosition
    /\ HasErrorMarker(ret.job_description)
    /\ ret.job_description[Len(ret.job_description)] = failure
    /\ ret.source_site = ScraperSourceSite(Lower(Netloc(url)))
    /\ ret.html_snapshot_path = "None"

\* C7 witness: navigation failed on a LinkedIn URL
C7_Witness ==
  /\ Returned
  /\ failure = "navigation"
  /\ ret.source_site = "linkedin"

\* C8 as stated: every returned result carries an extraction_method.
C8_MethodAlwaysPresent == Returned => "extraction_method" \in DOMAIN ret

\* C8 amended: a result produced by Tier 1 carries extraction_method
\* "requests"; a result produced by Tier 2, and the failure result, carry no
\* extraction_method.
C8_MethodOnlyFromTier1 ==
  Returned =>
    IF tier1_save = "saved"
    THEN "extraction_method" \in DOMAIN ret /\ ret.extraction_method = "requests"
    ELSE "extraction_method" \notin DOMAIN ret

\* C8 witness: a Tier-2 result of a site extractor, without the field
C8_Witness ==
  /\ Returned
  /\ failure = "none"
  /\ acquire_calls = 1
  /\ ret.job_title = <<"B">>
  /\ "extraction_method" \notin DOMAIN ret


-----------------------------------------------------------------------------
(* SmartJobURLParser._get_page_metadata *)

\* the text of <title>, in chunks (a word, one whitespace character, a
\* separator): None without a <title>
PageTitles ==
  {None,
   <<>>,
   <<"Engineer">>,
   <<"Engineer", " ", "at", " ", "Acme">>,
   <<"Engineer", " ", "-", " ", "Acme", " ", "|", " ", "LinkedIn">>,
   <<"|", " ", "Jobs">>}

\* a description longer than the preview
LongDescription == [i \in 1..201 |-> "x"]

\* the content of the description meta tag: None without the tag
PageDescriptions == {None, <<"d">>, LongDescription}

\* (Indeed\.com|LinkedIn|Glassdoor|Jobs) under re.IGNORECASE
SiteWords ==
  {"Indeed.com", "LinkedIn", "Glassdoor", "Jobs",
   "indeed.com", "linkedin", "glassdoor", "jobs"}

\* whether \s*[-|]\s*(Indeed\.com|LinkedIn|Glassdoor|Jobs) matches at i
SuffixAt(t, i) ==
  LET j == RunEnd(t, i, {" "}, TRUE) + 1
      k == RunEnd(t, j + 1, {" "}, TRUE) + 1
  IN  /\ j <= Len(t)
      /\ t[j] \in {"-", "|"}
      /\ k <= Len(t)
      /\ t[k] \in SiteWords

\* re.sub(r'\s*[-|]\s*(Indeed\.com|LinkedIn|Glassdoor|Jobs).*$', '', title)
RemoveSiteSuffix(t) ==
  LET starts == {i \in 1..Len(t) : SuffixAt(t, i)}
  IN  IF starts = {} THEN t
      ELSE SubSeq(t, 1, (Least(starts)) - 1)

\* where \s(?:at|@|-)\s([^-|]+)$ matches in t: 0 without a match
CompanyMatch(t) ==
  LET starts == {i \in 1..Len(t) :
                   /\ t[i] = " "
                   /\ i + 3 <= Len(t)
                   /\ t[i + 1] \in {"at", "@", "-"}
                   /\ t[i + 2] = " "
                   /\ \A k \in (i + 3)..Len(t) : t[k] \notin {"-", "|"}}
  IN  IF starts = {} THEN 0
      ELSE Least(starts)

PreviewLimit == 200

\* description[:200] + '...' if description and len(description) > 200
\* else description
Preview(description) ==
  IF Truthy(description) /\ Len(description) > PreviewLimit
  THEN SubSeq(description, 1, PreviewLimit) \o <<"...">>
  ELSE description

\* the dict _get_page_metadata returns for a fetched page
PageMetadata(title, description) ==
  LET cleaned == IF Truthy(title) THEN Strip(RemoveSiteSuffix(title)) ELSE title
      at == IF Truthy(cleaned) THEN CompanyMatch(cleaned) ELSE 0
      company_name ==
        IF at = 0 THEN None ELSE Strip(SubSeq(cleaned, at + 3, Len(cleaned)))
      page_title ==
        IF at = 0 THEN cleaned ELSE Strip(SubSeq(cleaned, 1, at - 1))
  IN  [job_title           |-> page_title,
       company_name        |-> company_name,
       description_preview |-> Preview(description),
       parsed_data         |-> [page_title       |-> page_title,
                                meta_description |-> description]]

\* an except branch returning the fields with None in them
MetadataOnFailureNulls == [job_title |-> None, company_name |-> None]

\* `return {}` of the except branch of _get_page_metadata
MetadataOnFailure == <<>>

\* what _get_page_metadata may return: {} after an exception, or the dict of
\* a fetched page
MetadataOutcomes ==
  {MetadataOnFailure}
    \cup {PageMetadata(t, d) : t \in PageTitles, d \in PageDescriptions}

-----------------------------------------------------------------------------
(* SmartJobURLParser.parse_job_url *)

\* `if not result.get('job_title'):`
NeedsMetadata(result) == ~Truthy(result.job_title)

\* no call of scrape_job is under way
ScrapeIdle ==
  /\ url = [host |-> <<>>]
  /\ pc = "idle"
  /\ source_site = "None"
  /\ requests_result = NoneResult
  /\ driver = "None"
  /\ job_data = NoneResult
  /\ ret = NoneResult
  /\ current_proxy_index = 0
  /\ snapshots = {}
  /\ chrome = 0
  /\ acquire_calls = 0
  /\ quit_calls = 0
  /\ fetch = "none"
  /\ failure = "none"
  /\ tier1_save = "none"
  /\ tier2_save = "none"
  /\ extracted = NoneResult
  /\ response = "none"
  /\ accepted = "none"
  /\ persisted = FALSE
  /\ db = {}

ParseInit ==
  /\ IsParseUrl(p_url)
  /\ p_pc = "start"
  /\ p_result = <<>>
  /\ p_parser = "none"
  /\ p_failure = "none"
  /\ p_meta = "none"
  /\ p_before = <<>>
  /\ p_metadata = <<>>

\* parsed_url = urlparse(url) ... result = {...}
UrlParse ==
  /\ p_pc = "start"
  /\ UNCHANGED besides_parse
  /\ \/ /\ UrlParseRaises(p_url)
        /\ p_failure' = "urlparse"
        /\ p_result' = ParseFailure(p_url, "Invalid IPv6 URL")
        /\ p_pc' = "returned"
     \/ /\ ~UrlParseRaises(p_url)
        /\ p_result' = InitialResult(p_url, ParseDomain(p_url))
        /\ p_pc' = "dispatch"
        /\ UNCHANGED p_failure
  /\ UNCHANGED <<p_url, p_parser, p_meta, p_before, p_metadata>>

\* the loop over company_patterns: the first matching entry runs, and its
\* exception ends the call in the except branch
Dispatch ==
  /\ p_pc = "dispatch"
  /\ UNCHANGED besides_parse
  /\ LET pattern == MatchedPattern(ParseDomain(p_url))
     IN  \/ /\ pattern = "none"
            /\ p_pc' = IF NeedsMetadata(p_result) THEN "metadata" ELSE "returned"
            /\ UNCHANGED <<p_result, p_parser, p_failure>>
         \/ /\ pattern # "none"
            /\ p_parser' = pattern
            /\ LET parsed == RunParser(pattern, p_url)
               IN  IF parsed.raised
                   THEN /\ p_failure' = "parser"
                        /\ p_result' = ParseFailure(p_url, parsed.error)
                        /\ p_pc' = "returned"
                   ELSE /\ p_result' = Update(p_result, parsed.data)
                        /\ p_pc' = IF NeedsMetadata(p_result')
                                   THEN "metadata" ELSE "returned"
                        /\ UNCHANGED p_failure
  /\ UNCHANGED <<p_url, p_meta, p_before, p_metadata>>

\* metadata = self._get_page_metadata(url); result.update(metadata)
GetPageMetadata ==
  /\ p_pc = "metadata"
  /\ UNCHANGED besides_parse
  /\ \E metadata \in MetadataOutcomes :
       /\ p_result' = Update(p_result, metadata)
       /\ p_meta' = IF metadata = MetadataOnFailure THEN "failed" ELSE "fetched"
       /\ p_metadata' = metadata
  /\ p_before' = p_result
  /\ p_pc' = "returned"
  /\ UNCHANGED <<p_url, p_parser, p_failure>>

ParseNext ==
  \/ UrlParse
  \/ Dispatch
  \/ GetPageMetadata

\* a call of parse_job_url starts, no call of scrape_job under way
ParseStart == ScrapeIdle /\ ChainIdle /\ RotateIdle /\ ClassIdle /\ ParseInit

ParseSpec == ParseStart /\ [][ParseNext]_vars

-----------------------------------------------------------------------------
(* Properties of parse_job_url *)

\* the call has returned a result to its caller
ParseReturned == p_pc = "returned"

\* a URL that urlparse accepts, whose host contains "indeed", with a
\* parameter q and no parameter jk or vjk
IndeedSearchUrl(u) ==
  /\ ~UrlParseRaises(u)
  /\ Contains(Chars("indeed"), Lower(Netloc(u)))
  /\ \E i \in DOMAIN u.query : u.query[i].name = "q"
  /\ \A i \in DOMAIN u.query : u.query[i].name \notin {"jk", "vjk"}

\* C9: for every URL whose host contains "indeed", with a q parameter and no
\* jk or vjk parameter, parse_job_url returns the search-results error.
C9_IndeedSearchError ==
  (ParseReturned /\ IndeedSearchUrl(p_url)) =>
    /\ "error" \in DOMAIN p_result
    /\ p_result.error = SearchResultsError

\* C10: a failure caught in parse_job_url (urlparse raising, a per-site
\* parser raising, the Indeed search-results condition among them) yields a
\* returned result with all the fields of a result and an error; a call
\* without such a failure returns a result without an error.
C10_ErrorIffFailure ==
  ParseReturned =>
    /\ ("error" \in DOMAIN p_result) <=> (p_failure # "none")
    /\ {"job_url", "source_site", "job_id", "company_name", "job_title",
        "location", "suggested_titles"} \subseteq DOMAIN p_result
    /\ p_failure = "urlparse" => UrlParseRaises(p_url)
    /\ p_failure = "parser" => p_result.error = SearchResultsError

\* C10 witness: the Indeed parser raised and the call returned the error
C10_Witness ==
  /\ ParseReturned
  /\ p_failure = "parser"
  /\ p_parser = "indeed.com"
  /\ "error" \in DOMAIN p_result

\* a URL that urlparse accepts, on a host with linkedin.com in it, whose
\* path is /jobs/view/<digits>, without a /company/<slug> segment
LinkedinJobUrl(u) ==
  /\ ~UrlParseRaises(u)
  /\ Contains(Chars("linkedin.com"), ParseDomain(u))
  /\ u.path = <<"jobs", "view", "12">>

-----------------------------------------------------------------------------
(* A selector chain, one selector at a time *)

\* a chain and the page it runs on: a Tier-1 loop over a parsed page, or
\* _find_element_with_fallbacks over a browser page
ChainInit ==
  /\ c_kind \in {"soup", "driver"}
  /\ \E n \in 0..(ChainLen + 1) :
       /\ c_outs \in [1..n -> IF c_kind = "soup" THEN SoupOutcomes
                               ELSE DriverOutcomes]
       /\ c_calls = [j \in 1..n |-> 0]
  /\ c_i = 1
  /\ c_ret = None
  /\ c_pc = "loop"

\* one pass of `for selector in selectors_list:`
ChainStep ==
  /\ c_pc = "loop"
  /\ c_i <= Len(c_outs)
  /\ c_calls' = [c_calls EXCEPT ![c_i] = @ + 1]
  /\ \/ \* find_element raises an exception that is not caught
        /\ c_outs[c_i].kind = "error"
        /\ c_pc' = "raised"
        /\ UNCHANGED <<c_i, c_ret>>
     \/ \* an element with a text: return / break
        /\ HasText(c_outs[c_i])
        /\ c_ret' = Strip(c_outs[c_i].text)
        /\ c_pc' = "done"
        /\ UNCHANGED c_i
     \/ \* no element, or an element without a text: the next selector
        /\ c_outs[c_i].kind # "error"
        /\ ~HasText(c_outs[c_i])
        /\ c_i' = c_i + 1
        /\ UNCHANGED <<c_ret, c_pc>>
  /\ UNCHANGED <<c_kind, c_outs>>
  /\ UNCHANGED besides_chain

\* the loop ran out of selectors: `return None` / the variable stays None
ChainExhausted ==
  /\ c_pc = "loop"
  /\ c_i > Len(c_outs)
  /\ c_ret' = None
  /\ c_pc' = "done"
  /\ UNCHANGED <<c_kind, c_outs, c_i, c_calls>>
  /\ UNCHANGED besides_chain

ChainNext ==
  \/ ChainStep
  \/ ChainExhausted

\* a chain is run, no call of scrape_job or parse_job_url under way
ChainStart == ScrapeIdle /\ ParseIdle /\ RotateIdle /\ ClassIdle /\ ChainInit

ChainSpec == ChainStart /\ [][ChainNext]_vars

\* the selectors of the chain that locate an element whose stripped text is
\* not empty
WithText(outs) ==
  {j \in DOMAIN outs :
     /\ outs[j].kind = "text"
     /\ \E k \in DOMAIN outs[j].text : outs[j].text[k] # " "}

\* C12: a chain is evaluated left to right, each selector at most once; once
\* a selector locates an element with non-empty stripped text that text is
\* the result and no later selector is evaluated; a selector that matches
\* nothing or an element with empty text is skipped; the result is None only
\* when no selector yields non-empty text. Both for the Tier-1 loops and for
\* _find_element_with_fallbacks, whose closed forms agree with the loop.
C12_ShortCircuit ==
  LET texts == WithText(c_outs)
      evaluated == {j \in DOMAIN c_calls : c_calls[j] > 0}
  IN  c_pc \in {"loop", "done", "raised"} =>
        /\ \A j \in DOMAIN c_calls : c_calls[j] <= 1
        /\ \A j \in evaluated : \A k \in 1..(j - 1) :
             k \in evaluated /\ k \notin texts
        /\ c_pc = "done" =>
             /\ texts = {} => c_ret = None /\ evaluated = DOMAIN c_outs
             /\ texts # {} =>
                  /\ c_ret = Strip(c_outs[Least(texts)].text)
                  /\ c_ret # None
                  /\ evaluated = 1..Least(texts)
             /\ c_kind = "soup" =>
                  SelectChain(c_outs) =
                    [text |-> c_ret, evaluated |-> Cardinality(evaluated)]
             /\ c_kind = "driver" =>
                  FindElementWithFallbacks(c_outs) =
                    [text |-> c_ret, raised |-> FALSE,
                     evaluated |-> Cardinality(evaluated)]
        /\ c_pc = "raised" =>
             /\ c_kind = "driver"
             /\ FindElementWithFallbacks(c_outs) =
                  [text |-> None, raised |-> TRUE,
                   evaluated |-> Cardinality(evaluated)]

\* C12 witness: a browser chain [A, B, C] where A has an empty text and B a
\* text: A and B were evaluated, C was not, the result is B's stripped text
C12_Witness ==
  /\ c_pc = "done"
  /\ c_kind = "driver"
  /\ Len(c_outs) = 3
  /\ c_outs[3].kind = "text"
  /\ c_calls = <<1, 1, 0>>
  /\ c_ret = <<"B">>

-----------------------------------------------------------------------------
(* Proxy rotation: _get_next_proxy step by step *)

\* most calls of _get_next_proxy a caller makes
MaxCalls == 2

\* a call of _get_next_proxy is between its entry and its return
InCall(t) == t_pc[t] # "idle"

\* one JobScraper with its pool, shared by the callers
RotateInit ==
  /\ proxy_list \in ProxyPools
  /\ rot_index = 0
  /\ t_pc = [t \in Callers |-> "idle"]
  /\ t_proxy = [t \in Callers |-> "None"]
  /\ t_next = [t \in Callers |-> 0]
  /\ t_calls = [t \in Callers |-> 0]
  /\ rot_returns = <<>>
  /\ rot_overlap = FALSE
  /\ req_pc = "idle"
  /\ req_n = 0
  /\ req_left = 0

\* `if not self.proxy_list: return None`
EnterGetNextProxy(t) ==
  /\ t_pc[t] = "idle"
  /\ t_calls[t] < MaxCalls
  /\ t_calls' = [t_calls EXCEPT ![t] = @ + 1]
  /\ \/ /\ proxy_list = <<>>
        /\ rot_returns' = Append(rot_returns, "None")
        /\ UNCHANGED <<t_pc, rot_overlap>>
     \/ /\ proxy_list # <<>>
        /\ t_pc' = [t_pc EXCEPT ![t] = "read"]
        /\ rot_overlap' = (rot_overlap \/ \E o \in Callers \ {t} : InCall(o))
        /\ UNCHANGED rot_returns
  /\ UNCHANGED <<proxy_list, rot_index, t_proxy, t_next, req_pc, req_n,
                 req_left>>
  /\ UNCHANGED besides_rotation

\* proxy = self.proxy_list[self.current_proxy_index]
ReadProxy(t) ==
  /\ t_pc[t] = "read"
  /\ t_proxy' = [t_proxy EXCEPT ![t] = ProxyAt(proxy_list, rot_index)]
  /\ t_pc' = [t_pc EXCEPT ![t] = "load"]
  /\ UNCHANGED <<proxy_list, rot_index, t_next, t_calls, rot_returns,
                 rot_overlap, req_pc, req_n, req_left>>
  /\ UNCHANGED besides_rotation

\* the right-hand side (self.current_proxy_index + 1) % len(self.proxy_list)
LoadIndex(t) ==
  /\ t_pc[t] = "load"
  /\ t_next' = [t_next EXCEPT ![t] = NextIndex(proxy_list, rot_index)]
  /\ t_pc' = [t_pc EXCEPT ![t] = "store"]
  /\ UNCHANGED <<proxy_list, rot_index, t_proxy, t_calls, rot_returns,
                 rot_overlap, req_pc, req_n, req_left>>
  /\ UNCHANGED besides_rotation

\* self.current_proxy_index = ...; return proxy
StoreIndex(t) ==
  /\ t_pc[t] = "store"
  /\ rot_index' = t_next[t]
  /\ rot_returns' = Append(rot_returns, t_proxy[t])
  /\ t_pc' = [t_pc EXCEPT ![t] = "idle"]
  /\ UNCHANGED <<proxy_list, t_proxy, t_next, t_calls, rot_overlap, req_pc,
                 req_n, req_left>>
  /\ UNCHANGED besides_rotation

RotateNext ==
  \E t \in Callers :
    \/ EnterGetNextProxy(t)
    \/ ReadProxy(t)
    \/ LoadIndex(t)
    \/ StoreIndex(t)

\* calls of _get_next_proxy on one JobScraper, nothing else under way
RotateStart == ScrapeIdle /\ ParseIdle /\ ChainIdle /\ ClassIdle /\ RotateInit

RotateSpec == RotateStart /\ [][RotateNext]_vars

\* the entries of a pool
PoolEntries(list) == {list[i] : i \in DOMAIN list}

\* C19: with a non-empty proxy_list, under any interleaving of the steps of
\* _get_next_proxy calls, current_proxy_index stays in [0, len(proxy_list))
\* and every returned value is an entry of the pool; when no two calls
\* overlap, successive calls return the entries in cyclic order; with an
\* empty pool every call returns None and leaves the index unchanged.
C19_RotationSafe ==
  req_pc = "idle" =>
    /\ proxy_list # <<>> =>
         /\ rot_index \in 0..(Len(proxy_list) - 1)
         /\ \A k \in DOMAIN rot_returns :
              rot_returns[k] \in PoolEntries(proxy_list)
         /\ ~rot_overlap =>
              \A k \in DOMAIN rot_returns :
                rot_returns[k] = proxy_list[((k - 1) % Len(proxy_list)) + 1]
    /\ proxy_list = <<>> =>
         /\ rot_index = 0
         /\ \A k \in DOMAIN rot_returns : rot_returns[k] = "None"

\* C19 witness: two overlapping calls on a pool of two both returned the
\* first entry, and a later call the second
C19_Witness ==
  /\ proxy_list = <<"p1", "p2">>
  /\ rot_overlap
  /\ Len(rot_returns) >= 3
  /\ rot_returns[1] = "p1"
  /\ rot_returns[2] = "p1"
  /\ rot_returns[3] = "p2"

-----------------------------------------------------------------------------
(* The requests of one process: add_application, one after the other *)

\* most requests the process serves
MaxRequests == 4

\* the process is up, no request served yet
ProcessInit ==
  /\ proxy_list \in ProxyPools
  /\ rot_index = 0
  /\ t_pc = [t \in Callers |-> "idle"]
  /\ t_proxy = [t \in Callers |-> "None"]
  /\ t_next = [t \in Callers |-> 0]
  /\ t_calls = [t \in Callers |-> 0]
  /\ rot_returns = <<>>
  /\ rot_overlap = FALSE
  /\ req_pc = "wait"
  /\ req_n = 0
  /\ req_left = 0

\* add_application: `scraper = JobScraper()`, whose __init__ sets the pool
\* and current_proxy_index = 0
NewRequest ==
  /\ req_pc = "wait"
  /\ req_n < MaxRequests
  /\ req_n' = req_n + 1
  /\ req_left' = rot_index
  /\ rot_index' = 0
  /\ req_pc' = "tier1"
  /\ UNCHANGED <<proxy_list, t_pc, t_proxy, t_next, t_calls, rot_returns,
                 rot_overlap>>
  /\ UNCHANGED besides_rotation

\* scrape_job, Step 1: _try_requests_scraping draws a proxy; the request
\* ends there when Tier 1 succeeds
Tier1Proxy ==
  /\ req_pc = "tier1"
  /\ rot_returns' = Append(rot_returns, NextProxy(proxy_list, rot_index).proxy)
  /\ rot_index' = NextProxy(proxy_list, rot_index).index
  /\ \/ req_pc' = "wait"
     \/ req_pc' = "tier2"
  /\ UNCHANGED <<proxy_list, t_pc, t_proxy, t_next, t_calls, rot_overlap,
                 req_n, req_left>>
  /\ UNCHANGED besides_rotation

\* scrape_job, Step 2: _get_chrome_driver draws a proxy; the request ends
Tier2Proxy ==
  /\ req_pc = "tier2"
  /\ rot_returns' = Append(rot_returns, NextProxy(proxy_list, rot_index).proxy)
  /\ rot_index' = NextProxy(proxy_list, rot_index).index
  /\ req_pc' = "wait"
  /\ UNCHANGED <<proxy_list, t_pc, t_proxy, t_next, t_calls, rot_overlap,
                 req_n, req_left>>
  /\ UNCHANGED besides_rotation

ProcessNext ==
  \/ NewRequest
  \/ Tier1Proxy
  \/ Tier2Proxy

\* a process serving requests, nothing else under way
ProcessStart == ScrapeIdle /\ ParseIdle /\ ChainIdle /\ ClassIdle /\ ProcessInit

ProcessSpec == ProcessStart /\ [][ProcessNext]_vars

-----------------------------------------------------------------------------
(* The two site classifications *)

\* the pieces a host to classify is made of
ClassHostTokens ==
  {"www.", "linkedin", "indeed", "Indeed", "glassdoor", "google", ".com"}

\* a host, classified by neither class yet
ClassInit ==
  /\ h_host \in SeqsUpTo(ClassHostTokens, MaxHostToks)
  /\ h_scraper = "pending"
  /\ h_parser = "pending"

\* JobScraper._determine_source_site on a URL with this host
ScraperClassify ==
  /\ h_scraper = "pending"
  /\ h_scraper' = ScraperSourceSite(Lower(Flatten(h_host)))
  /\ UNCHANGED <<h_host, h_parser>>
  /\ UNCHANGED besides_classes

\* SmartJobURLParser._determine_source_site on the domain parse_job_url
\* derives from this host
ParserClassify ==
  /\ h_parser = "pending"
  /\ h_parser' = ParserSourceSite(StripWww(Lower(Flatten(h_host))))
  /\ UNCHANGED <<h_host, h_scraper>>
  /\ UNCHANGED besides_classes

ClassNext ==
  \/ ScraperClassify
  \/ ParserClassify

\* a host is classified, nothing else under way
ClassStart ==
  ScrapeIdle /\ ParseIdle /\ ChainIdle /\ RotateIdle /\ ClassInit

ClassSpec == ClassStart /\ [][ClassNext]_vars

\* C14: on every host the two classifications agree as to linkedin,
\* glassdoor and indeed: one returns such a site exactly when the other
\* returns the same, hosts with several of the names included.
C14_ClassificationsAgree ==
  (h_scraper \notin {"idle", "pending"} /\ h_parser \notin {"idle", "pending"}) =>
    \A site \in {"linkedin", "glassdoor", "indeed"} :
      (h_scraper = site) <=> (h_parser = site)

-----------------------------------------------------------------------------
(* Properties of add_application and of the tiers of scrape_job *)

\* C15: add_application accepts a scrape_job result, and goes on to
\* persistence, exactly when company_name and job_title are both neither
\* placeholder nor empty and job_description lacks the failure marker, or
\* the result was produced by Tier 1; in every other case it answers 422 and
\* persists nothing.
C15_AcceptedExactlyWhen ==
  (pc = "responded" /\ accepted \in {"yes", "no"}) =>
    LET complete ==
          /\ ret.company_name \notin {UnknownCompany, <<>>}
          /\ ret.job_title \notin {UnknownPosition, <<>>}
          /\ \A i \in DOMAIN ret.job_description :
               ret.job_description[i] # ErrorMarker
        lightweight == tier1_save = "saved"
    IN  /\ accepted = "yes" <=> (complete \/ lightweight)
        /\ accepted = "no" => response = "422" /\ ~persisted
        /\ persisted => accepted = "yes" /\ response = "200"
        /\ persisted => \E row \in db :
             /\ row.job_url = url
             /\ row.company_name = ret.company_name
             /\ row.job_title = ret.job_title

\* C15 witness: a Tier-1 result without a company was accepted and stored
C15_Witness ==
  /\ pc = "responded"
  /\ tier1_save = "saved"
  /\ ret.company_name = UnknownCompany
  /\ accepted = "yes"
  /\ persisted
  /\ response = "200"

\* C16: within one call the browser session is acquired only after
\* _try_requests_scraping has returned, and only when Tier 1 gave no result
\* that was returned; the Tier-1 fetch and a browser session of the same
\* call are never under way together.
C16_TiersSequential ==
  /\ pc \in {"start", "tier1", "t1save"} =>
       /\ acquire_calls = 0
       /\ chrome = 0
       /\ driver = "None"
  /\ pc = "tier1" => fetch = "none"
  /\ acquire_calls > 0 =>
       /\ fetch \in {"raised", "non200", "200"}
       /\ requests_result = NoneResult \/ tier1_save = "raised"
       /\ tier1_save # "saved"
  /\ tier1_save = "saved" => acquire_calls = 0 /\ chrome = 0

\* C16 witness: Tier 1 ended with a status other than 200 and the browser
\* session was then acquired
C16_Witness ==
  /\ pc = "extract"
  /\ fetch = "non200"
  /\ requests_result = NoneResult
  /\ acquire_calls = 1
  /\ driver = "driver"

-----------------------------------------------------------------------------
(* Further properties of parse_job_url *)

\* the value of the first parameter called name in the query, None if there
\* is no such parameter
ParamValue(u, name) ==
  LET named == {i \in DOMAIN u.query : u.query[i].name = name}
  IN  IF named = {} THEN None ELSE Chars(u.query[Least(named)].value)

\* C17: for an Indeed URL the search-results error is produced only when
\* neither jk nor vjk is present and a parameter named q is present: with a
\* jk or vjk value the result has that value as job_id (jk first) and no
\* error, also when q is present; without a parameter named q (only seq=1,
\* say) there is no error.
C17_IndeedErrorOnlyOnQ ==
  (ParseReturned /\ p_parser = "indeed.com") =>
    LET jk == ParamValue(p_url, "jk")
        vjk == ParamValue(p_url, "vjk")
        q == ParamValue(p_url, "q")
    IN  /\ jk # None =>
             "error" \notin DOMAIN p_result /\ p_result.job_id = jk
        /\ (jk = None /\ vjk # None) =>
             "error" \notin DOMAIN p_result /\ p_result.job_id = vjk
        /\ q = None => "error" \notin DOMAIN p_result
        /\ "error" \in DOMAIN p_result =>
             jk = None /\ vjk = None /\ q # None

\* C18: when the page-metadata fetch fails (timeout, connection error,
\* non-2xx status, parse error) parse_job_url returns exactly the result it
\* had before the fetch, the fields set by classification and by the
\* per-site parser unchanged, and without an error field.
C18_FailedFetchAddsNothing ==
  (ParseReturned /\ p_meta = "failed") =>
    /\ p_result = p_before
    /\ "error" \notin DOMAIN p_result
    /\ p_result.source_site = ParserSourceSite(ParseDomain(p_url))
    /\ p_parser = "none" =>
         p_result = InitialResult(p_url, ParseDomain(p_url))
    /\ p_parser # "none" =>
         p_result = Update(InitialResult(p_url, ParseDomain(p_url)),
                           RunParser(p_parser, p_url).data)

\* C18 witness: the LinkedIn parser read a company from the URL, the fetch
\* failed, the company is in the result
C18_Witness ==
  /\ ParseReturned
  /\ p_meta = "failed"
  /\ p_parser = "linkedin.com"
  /\ p_url.path = <<"company", "acme-co">>
  /\ p_result.company_name = <<"A", "c", "m", "e", " ", "C", "o">>

-----------------------------------------------------------------------------
(* The Tier-2 snapshot *)

\* C20: when saving the HTML snapshot fails in Tier 2, the failure is
\* swallowed and does not fail the tier: scrape_job returns the fields the
\* extractor produced, unchanged, with html_snapshot_path None, and the
\* browser session is released.
C20_Tier2SaveFailureSwallowed ==
  (tier2_save = "raised" /\ pc \in {"finally", "returned", "responded"}) =>
    /\ failure = "none"
    /\ extracted # NoneResult
    /\ DOMAIN ret = DOMAIN extracted \cup {"html_snapshot_path"}
    /\ \A k \in DOMAIN extracted : ret[k] = extracted[k]
    /\ ret.html_snapshot_path = "None"
    /\ pc \in {"returned", "responded"} =>
         /\ quit_calls = 1
         /\ chrome = 0

\* C20 witness: the extractor found a company, the snapshot save failed, the
\* call returned the company and released the session
C20_Witness ==
  /\ Returned
  /\ tier2_save = "raised"
  /\ ret.company_name = <<"A">>
  /\ ret.html_snapshot_path = "None"
  /\ quit_calls = 1

-----------------------------------------------------------------------------
(* Classification, dispatch and merge in parse_job_url *)

\* C21: the source_site of every result of parse_job_url is the
\* classification of the URL's host, results with an error included: an
\* Indeed search-results URL that yields the error still has source_site
\* indeed.
C21_SourceSiteIsClassification ==
  (ParseReturned /\ ~UrlParseRaises(p_url)) =>
    p_result.source_site = ParserSourceSite(ParseDomain(p_url))

\* C22: what a per-site parser read from the URL stays in the result: when
\* it set a company_name (or a parsed_data) and the metadata fetch then ran,
\* the merged result still has that company_name and that parsed_data.
C22_UrlValuesPreserved ==
  (ParseReturned /\ p_meta = "fetched" /\ p_parser # "none") =>
    /\ p_before.company_name # None =>
         p_result.company_name = p_before.company_name
    /\ (\E k \in DOMAIN p_before.parsed_data : p_before.parsed_data[k] # None) =>
         p_result.parsed_data = p_before.parsed_data

\* the source_site an entry of company_patterns belongs to
PatternSite(pattern) ==
  CASE pattern = "linkedin.com"     -> "linkedin"
    [] pattern = "indeed.com"       -> "indeed"
    [] pattern = "glassdoor.com"    -> "glassdoor"
    [] pattern = "jobs.google.com"  -> "google_jobs"
    [] pattern = "ziprecruiter.com" -> "ziprecruiter"
    [] pattern = "none"             -> "other"

\* C23: at most one per-site parser runs per call, the first entry in table
\* order whose pattern occurs in the host, and it is the parser of the
\* reported source_site: a host classified indeed runs the Indeed parser, a
\* host classified google_jobs the Google Jobs parser, a host classified
\* other none.
C23_DispatchMatchesClassification ==
  (ParseReturned /\ ~UrlParseRaises(p_url)) =>
    LET occurring == {i \in DOMAIN CompanyPatterns :
                        Contains(Chars(CompanyPatterns[i]), ParseDomain(p_url))}
    IN  /\ occurring = {} => p_parser = "none"
        /\ occurring # {} => p_parser = CompanyPatterns[Least(occurring)]
        /\ PatternSite(p_parser) = ParserSourceSite(ParseDomain(p_url))
        /\ p_failure = "none" => PatternSite(p_parser) = p_result.source_site

=============================================================================
